---- MODULE Spec2Model ----
(***************************************************************************)
(* Model of useSpinButton (keyboard dispatch, focus/blur, press-and-hold   *)
(* repeat timers) of react-spectrum.                                       *)
(*                                                                         *)
(* A handler runs to completion, so every handler is one action.  What a   *)
(* handler did to its collaborators (the event object, the host callbacks, *)
(* the timer queue) is recorded, in order, in lastOps.                     *)
(***************************************************************************)
EXTENDS Integers, Sequences, FiniteSets, TLC

\* ---------------------------------------------------------------- bounds
\* Virtual time stops at MaxTime.
MaxTime == 540
\* Largest step by which virtual time advances between two events.
TimeStep == 200
\* Number of timers setTimeout hands out in one run.
MaxTimers == 4
\* The most integer digits of a formatted number.
MaxIntDigits == 7
\* The longest text passed to parse as it is.
MaxTextLen == 3

\* ------------------------------------------------------- program constants
\* incrementButtonProps.onPressStart: onIncrementPressStart(400)
IncrementInitialDelay == 400
\* decrementButtonProps.onPressStart: onDecrementPressStart(400)
DecrementInitialDelay == 400
\* setTimeout(() => onIncrementPressStart(60), ...)
IncrementRepeatDelay == 60
\* setTimeout(() => onDecrementPressStart(75), ...)
DecrementRepeatDelay == 75

\* ------------------------------------------------------------------ values
\* A prop the host did not supply.
Undefined == "undefined"
\* An optional callback prop: absent, or a function.
Callback == {Undefined, "f1"}
\* The two buttons (and the two repeat sequences).
Dirs == {"inc", "dec"}
Other(d) == IF d = "inc" THEN "dec" ELSE "inc"
\* The handle value of a ref that was never assigned (useRef()).
NoTimer == 0

VARIABLES
  props,      \* the props of the latest render (SpinButtonProps)
  isFocused,  \* isFocused.current
  async,      \* _async.current: NoTimer or the id of the timer last armed
  timers,     \* the live timers: scheduled, not yet fired nor cleared
  nextId,     \* the id setTimeout returns next
  now,        \* virtual time
  mounted,    \* the component is mounted
  pressed,    \* per button: a press started and has not ended
  stepCalls,  \* per direction: step invocations made by press-start and by
              \* timer fires
  lastCallAt, \* per direction: time of the last such invocation
  press,      \* per direction, about its last press-start: the time, the
              \* value of stepCalls before it, and whether it began with no
              \* timer live and no press of the other button started since
  lastEvent,  \* the event the last handler handled
  lastOps,    \* what that handler did, in order
  parser      \* useNumberParser: the active locale, numberData.current, and
              \* the text and result of the last call of parse

vars == <<props, isFocused, async, timers, nextId, now, mounted, pressed,
          stepCalls, lastCallAt, press, lastEvent, lastOps, parser>>

\* ------------------------------------------------------- handler effects
PreventDefault == [op |-> "preventDefault", name |-> "", fn |-> "", n |-> 0]
Call(name, fn) == [op |-> "call", name |-> name, fn |-> fn, n |-> 0]
SetTimeout(d, delay) == [op |-> "setTimeout", name |-> d, fn |-> "", n |-> delay]
ClearTimeout(id) == [op |-> "clearTimeout", name |-> "", fn |-> "", n |-> id]
Select == [op |-> "select", name |-> "", fn |-> "", n |-> 0]
\* Calling undefined: a TypeError leaves the handler.
Throw == [op |-> "throw", name |-> "TypeError", fn |-> "", n |-> 0]

\* f(): calls f, or throws a TypeError when f is undefined.
Invoke(name, fn) == IF fn = Undefined THEN <<Throw>> ELSE <<Call(name, fn)>>

\* The calls a handler made, and whether it threw or prevented the default.
CallsIn(ops) == {i \in 1..Len(ops) : ops[i].op = "call"}
Threw(ops) == \E i \in 1..Len(ops) : ops[i].op = "throw"
Prevented(ops) == \E i \in 1..Len(ops) : ops[i].op = "preventDefault"
Invoked(ops, name) == \E i \in 1..Len(ops) : ops[i].op = "call" /\ ops[i].name = name
IsCall(o) == o.op = "call"
\* The names of the callbacks a handler called, in order.
CalledNames(ops) ==
  [i \in 1..Len(SelectSeq(ops, IsCall)) |-> SelectSeq(ops, IsCall)[i].name]

\* ------------------------------------------------------------- events
NoEvent == [type |-> "mount", key |-> "", dir |-> "",
            ctrlKey |-> FALSE, metaKey |-> FALSE, shiftKey |-> FALSE, altKey |-> FALSE]
Event(type, d) == [NoEvent EXCEPT !.type = type, !.dir = d]

\* ------------------------------------------------------------- timers
TimersOf(d) == {t \in timers : t.dir = d}
Due == {t \in timers : t.at <= now}
MinAt(S) == CHOOSE a \in {t.at : t \in S} : \A t \in S : a <= t.at
Min2(a, b) == IF a <= b THEN a ELSE b

\* The step callback a direction's press-start reads from the props.
StepProp(p, d) == IF d = "inc" THEN p.onIncrement ELSE p.onDecrement
StepName(d) == IF d = "inc" THEN "onIncrement" ELSE "onDecrement"
\* InitialDelay with the decrement button wired to the repeat delay.
InitialDelay_DecrementRepeat(d) ==
  IF d = "inc" THEN IncrementInitialDelay ELSE DecrementRepeatDelay
InitialDelay(d) == IF d = "inc" THEN IncrementInitialDelay ELSE DecrementInitialDelay
\* RepeatDelay that waits the initial delay again.
RepeatDelay_Initial(d) == InitialDelay(d)
\* RepeatDelay with the two directions' intervals swapped.
RepeatDelay_Swapped(d) == IF d = "inc" THEN DecrementRepeatDelay ELSE IncrementRepeatDelay
RepeatDelay(d) == IF d = "inc" THEN IncrementRepeatDelay ELSE DecrementRepeatDelay

\* onIncrementPressStart / onDecrementPressStart (direction d) as closed over
\* the step callback fn, run while the timers in live are scheduled: calls
\* fn, then arms a timer that calls the same closure again with the repeat
\* delay, and stores its id in _async.current.  Nothing is cleared first.
\* When fn is undefined the call throws and no timer is armed.
onPressStart(d, fn, initialStepDelay, live) ==
  IF fn = Undefined
  THEN /\ lastOps' = <<Throw>>
       /\ timers' = live
       /\ UNCHANGED <<async, nextId, stepCalls, lastCallAt>>
  ELSE /\ lastOps' = <<Call(StepName(d), fn), SetTimeout(d, initialStepDelay)>>
       /\ timers' = live \cup
            {[id |-> nextId, dir |-> d, at |-> now + initialStepDelay, fn |-> fn]}
       /\ async' = nextId
       /\ nextId' = nextId + 1
       /\ stepCalls' = [stepCalls EXCEPT ![d] = @ + 1]
       /\ lastCallAt' = [lastCallAt EXCEPT ![d] = now]

\* onIncrementPressEnd / onDecrementPressEnd (the two are the same code):
\* clearTimeout(_async.current) when the handle is set; the handle itself
\* is left as it is.
onPressEnd ==
  IF async # NoTimer
  THEN /\ lastOps' = <<ClearTimeout(async)>>
       /\ timers' = {t \in timers : t.id # async}
  ELSE /\ lastOps' = <<>>
       /\ UNCHANGED timers

\* ------------------------------------------------------------ keyboard
\* An optional number: <<>> when the prop is absent, <<n>> when it is n.
NoNumber == <<>>
Num(n) == <<n>>

Keys == {"Enter", "PageUp", "ArrowUp", "Up", "PageDown", "ArrowDown", "Down",
         "Home", "End", "a"}
\* The modifier states key events are drawn from: none, each one alone, all.
Modifiers == {<<FALSE, FALSE, FALSE, FALSE>>, <<TRUE, FALSE, FALSE, FALSE>>,
              <<FALSE, TRUE, FALSE, FALSE>>, <<FALSE, FALSE, TRUE, FALSE>>,
              <<FALSE, FALSE, FALSE, TRUE>>, <<TRUE, TRUE, TRUE, TRUE>>}
KeyEvent(key, m) == [type |-> "keydown", key |-> key, dir |-> "",
                     ctrlKey |-> m[1], metaKey |-> m[2], shiftKey |-> m[3], altKey |-> m[4]]
KeyEvents == {KeyEvent(k, m) : k \in Keys, m \in Modifiers}

\* KeyIgnored without the read-only test.
KeyIgnored_NoReadOnly(p, e) == e.ctrlKey \/ e.metaKey \/ e.shiftKey \/ e.altKey

\* if (e.ctrlKey || e.metaKey || e.shiftKey || e.altKey || isReadOnly) return;
KeyIgnored(p, e) == e.ctrlKey \/ e.metaKey \/ e.shiftKey \/ e.altKey \/ p.isReadOnly

\* case 'Enter': e.preventDefault(); onValidate();
EnterCase(p) == <<PreventDefault>> \o Invoke("onValidate", p.onValidate)

\* case 'ArrowUp': case 'Up': if (onIncrement) {e.preventDefault(); onIncrement();}
ArrowUpCase(p) ==
  IF p.onIncrement # Undefined
  THEN <<PreventDefault>> \o Invoke("onIncrement", p.onIncrement)
  ELSE <<>>

\* PageUpCase without the break: the page call falls through to the step.
PageUpCase_NoBreak(p) ==
  IF p.onIncrementPage # Undefined
  THEN <<PreventDefault>> \o Invoke("onIncrementPage", p.onIncrementPage) \o ArrowUpCase(p)
  ELSE ArrowUpCase(p)

\* case 'PageUp': if (onIncrementPage) {...; break;} and else falls through
PageUpCase(p) ==
  IF p.onIncrementPage # Undefined
  THEN <<PreventDefault>> \o Invoke("onIncrementPage", p.onIncrementPage)
  ELSE ArrowUpCase(p)

\* case 'ArrowDown': case 'Down': if (onDecrement) {e.preventDefault(); onDecrement();}
ArrowDownCase(p) ==
  IF p.onDecrement # Undefined
  THEN <<PreventDefault>> \o Invoke("onDecrement", p.onDecrement)
  ELSE <<>>

\* case 'PageDown': if (onDecrementPage) {...; break;} and else falls through
PageDownCase(p) ==
  IF p.onDecrementPage # Undefined
  THEN <<PreventDefault>> \o Invoke("onDecrementPage", p.onDecrementPage)
  ELSE ArrowDownCase(p)

\* HomeCase with a truthiness test of minValue: a bound of 0 counts as absent.
HomeCase_TruthyMin(p) ==
  IF p.minValue # NoNumber /\ p.minValue # Num(0) /\ p.onDecrementToMin # Undefined
  THEN <<PreventDefault>> \o Invoke("onDecrementToMin", p.onDecrementToMin)
  ELSE <<>>

\* case 'Home': if (minValue != null && onDecrementToMin) {...}
HomeCase(p) ==
  IF p.minValue # NoNumber /\ p.onDecrementToMin # Undefined
  THEN <<PreventDefault>> \o Invoke("onDecrementToMin", p.onDecrementToMin)
  ELSE <<>>

\* case 'End': if (maxValue != null && onIncrementToMax) {...}
EndCase(p) ==
  IF p.maxValue # NoNumber /\ p.onIncrementToMax # Undefined
  THEN <<PreventDefault>> \o Invoke("onIncrementToMax", p.onIncrementToMax)
  ELSE <<>>

\* onKeyDown with the props p of the latest render: what it does, in order.
onKeyDown(p, e) ==
  IF KeyIgnored(p, e) THEN <<>>
  ELSE CASE e.key = "Enter" -> EnterCase(p)
         [] e.key = "PageUp" -> PageUpCase(p)
         [] e.key \in {"ArrowUp", "Up"} -> ArrowUpCase(p)
         [] e.key = "PageDown" -> PageDownCase(p)
         [] e.key \in {"ArrowDown", "Down"} -> ArrowDownCase(p)
         [] e.key = "Home" -> HomeCase(p)
         [] e.key = "End" -> EndCase(p)
         [] OTHER -> <<>>

\* onBlur that leaves a read-only control unvalidated.
onBlur_SkipReadOnly(p) == IF p.isReadOnly THEN <<>> ELSE Invoke("onValidate", p.onValidate)

\* onBlur: isFocused.current = false; onValidate();
onBlur(p) == Invoke("onValidate", p.onValidate)

\* ------------------------------------------------------------ announcement
Announce(text) == [op |-> "announce", name |-> text, fn |-> "", n |-> 0]
\* The decimal digits, for `${value}` of a one-digit number.
DecimalDigits == <<"0", "1", "2", "3", "4", "5", "6", "7", "8", "9">>
\* `${value}`: the number's decimal form; "undefined" for an absent value.
Stringify(v) == IF v = NoNumber THEN "undefined" ELSE DecimalDigits[v[1] + 1]
\* textValue || `${value}`: an absent or empty textValue is falsy.
Displayed(p) ==
  IF p.textValue # Undefined /\ p.textValue # "" THEN p.textValue ELSE Stringify(p.value)

\* AnnounceEffect with the dependency list [value] only.
AnnounceEffect_ValueOnly(p, q, focused) ==
  IF q.value # p.value /\ focused THEN <<Announce(Displayed(q))>> ELSE <<>>

\* AnnounceEffect without the test of isFocused.current.
AnnounceEffect_IgnoreFocus(p, q, focused) ==
  IF q.textValue # p.textValue \/ q.value # p.value
  THEN <<Announce(Displayed(q))>> ELSE <<>>

\* useEffect(() => {if (isFocused.current) announce(...)}, [textValue, value])
\* after the render that replaces the props p by q: the effect runs when a
\* dependency changed, and announces when the control is focused.
AnnounceEffect(p, q, focused) ==
  IF (q.textValue # p.textValue \/ q.value # p.value) /\ focused
  THEN <<Announce(Displayed(q))>> ELSE <<>>

\* ----------------------------------------------------------------- props
\* The props a host may render with.
AllProps ==
  [onValidate : Callback, onIncrement : Callback, onIncrementPage : Callback,
   onDecrement : Callback, onDecrementPage : Callback,
   onDecrementToMin : Callback, onIncrementToMax : Callback,
   minValue : {NoNumber, Num(0)}, maxValue : {NoNumber, Num(10)},
   isReadOnly : BOOLEAN, value : {Num(5)}, textValue : {Undefined}]

\* A host that supplies every callback and both bounds.
FullProps ==
  [onValidate |-> "f1", onIncrement |-> "f1", onIncrementPage |-> "f1",
   onDecrement |-> "f1", onDecrementPage |-> "f1", onDecrementToMin |-> "f1",
   onIncrementToMax |-> "f1", minValue |-> Num(0), maxValue |-> Num(10),
   isReadOnly |-> FALSE, value |-> Num(5), textValue |-> Undefined]

\* The fields of the props.
Fields == DOMAIN FullProps

\* The values a host may give the field f.
FieldValues(f) ==
  CASE f = "minValue" -> {NoNumber, Num(0)}
    [] f = "maxValue" -> {NoNumber, Num(10)}
    [] f = "isReadOnly" -> BOOLEAN
    [] f = "value" -> {Num(5)}
    [] f = "textValue" -> {Undefined}
    [] OTHER -> Callback

\* The props that differ from p in the one field f.
Variants(p, f) == {[p EXCEPT ![f] = v] : v \in FieldValues(f)} \ {p}

\* ------------------------------------------------------------ number parser
\* A text is a sequence of characters; a character outside ASCII is written
\* as its code point.
NBSP == "u00A0"            \* NO-BREAK SPACE
MinusSign == "u2212"       \* MINUS SIGN
ArabicLetterMark == "u061C"
ArabicDecimal == "u066B"
ArabicGroup == "u066C"
ArabicDigits ==
  <<"u0660", "u0661", "u0662", "u0663", "u0664", "u0665", "u0666", "u0667", "u0668", "u0669">>

\* The locales of the runs, and what Intl.NumberFormat writes in each: the
\* group and decimal separators, the minus sign, the digits, and the sizes of
\* the last group of integer digits and of the groups before it.
Locales == {"en-US", "de-DE", "sv-SE", "en-IN", "ar-EG"}
Symbols(L) ==
  CASE L = "en-US" -> [group |-> <<",">>, decimal |-> <<".">>, minus |-> <<"-">>,
                       digits |-> DecimalDigits, primary |-> 3, secondary |-> 3]
    [] L = "de-DE" -> [group |-> <<".">>, decimal |-> <<",">>, minus |-> <<"-">>,
                       digits |-> DecimalDigits, primary |-> 3, secondary |-> 3]
    [] L = "sv-SE" -> [group |-> <<NBSP>>, decimal |-> <<",">>, minus |-> <<MinusSign>>,
                       digits |-> DecimalDigits, primary |-> 3, secondary |-> 3]
    [] L = "en-IN" -> [group |-> <<",">>, decimal |-> <<".">>, minus |-> <<"-">>,
                       digits |-> DecimalDigits, primary |-> 3, secondary |-> 2]
    [] L = "ar-EG" -> [group |-> <<ArabicGroup>>, decimal |-> <<ArabicDecimal>>,
                       minus |-> <<ArabicLetterMark, "-">>,
                       digits |-> ArabicDigits, primary |-> 3, secondary |-> 3]

\* A number to format: its sign, the digits of its integer part and the
\* digits of its fraction.
Decimal(neg, int, frac) == [neg |-> neg, int |-> int, frac |-> frac]

Part(type, value) == [type |-> type, value |-> value]
Numerals(L, ds) == [i \in 1..Len(ds) |-> Symbols(L).digits[ds[i] + 1]]

RECURSIVE LeadingParts(_, _)
LeadingParts(L, ds) ==
  IF Len(ds) <= Symbols(L).secondary
  THEN <<Part("integer", Numerals(L, ds))>>
  ELSE LeadingParts(L, SubSeq(ds, 1, Len(ds) - Symbols(L).secondary))
         \o <<Part("group", Symbols(L).group),
              Part("integer", Numerals(L, SubSeq(ds, Len(ds) - Symbols(L).secondary + 1, Len(ds))))>>

IntegerParts(L, ds, useGrouping) ==
  IF ~useGrouping \/ Len(ds) <= Symbols(L).primary
  THEN <<Part("integer", Numerals(L, ds))>>
  ELSE LeadingParts(L, SubSeq(ds, 1, Len(ds) - Symbols(L).primary))
         \o <<Part("group", Symbols(L).group),
              Part("integer", Numerals(L, SubSeq(ds, Len(ds) - Symbols(L).primary + 1, Len(ds))))>>

\* Intl.NumberFormat(L, {useGrouping}).formatToParts(v)
FormatToParts(L, v, useGrouping) ==
  (IF v.neg THEN <<Part("minusSign", Symbols(L).minus)>> ELSE <<>>)
    \o IntegerParts(L, v.int, useGrouping)
    \o (IF v.frac = <<>> THEN <<>>
        ELSE <<Part("decimal", Symbols(L).decimal), Part("fraction", Numerals(L, v.frac))>>)

RECURSIVE Join(_)
Join(parts) == IF parts = <<>> THEN <<>> ELSE Head(parts).value \o Join(Tail(parts))

\* Intl.NumberFormat(L, {useGrouping}).format(v)
Format(L, v, useGrouping) == Join(FormatToParts(L, v, useGrouping))

Chars(s) == {s[i] : i \in 1..Len(s)}
Reverse(s) == [i \in 1..Len(s) |-> s[Len(s) + 1 - i]]
First(I) == CHOOSE i \in I : \A j \in I : i <= j
Find(parts, type) == parts[First({i \in 1..Len(parts) : parts[i].type = type})]

\* The numbers the effect formats to read the locale's symbols.
SeparatorProbe == Decimal(FALSE, <<1, 2, 3, 4, 5>>, <<6>>)
NumeralProbe == Decimal(FALSE, <<9, 8, 7, 6, 5, 4, 3, 2, 1, 0>>, <<>>)

\* numberData.current as the effect leaves it for the locale L: the classes
\* of the group and decimal regular expressions, and the numerals from the
\* numeral of 0 to the numeral of 9 (the class of the numeral regular
\* expression, and the index of each).
DeriveNumberData(L) ==
  LET parts == FormatToParts(L, SeparatorProbe, TRUE)
  IN [group |-> Chars(Find(parts, "group").value),
      decimal |-> Chars(Find(parts, "decimal").value),
      numeral |-> Reverse(Format(L, NumeralProbe, FALSE))]

\* ---- what parse does to its argument
WhiteSpace == {" ", NBSP}
RECURSIVE TrimStart(_)
TrimStart(s) == IF s # <<>> /\ Head(s) \in WhiteSpace THEN TrimStart(Tail(s)) ELSE s
Trim(s) == Reverse(TrimStart(Reverse(TrimStart(s))))

\* s.replace(/[class]/g, "")
RemoveAll(s, class) == SelectSeq(s, LAMBDA c : c \notin class)
\* s.replace(/[class]/, c)
ReplaceFirst(s, class, c) ==
  LET I == {i \in 1..Len(s) : s[i] \in class}
  IN IF I = {} THEN s ELSE [s EXCEPT ![First(I)] = c]
\* s.replace(/[numerals]/g, d => index(d))
ReplaceNumerals(s, numerals) ==
  [i \in 1..Len(s) |->
     IF \E k \in 1..Len(numerals) : numerals[k] = s[i]
     THEN DecimalDigits[CHOOSE k \in 1..Len(numerals) : numerals[k] = s[i]]
     ELSE s[i]]

\* A JavaScript number: NaN, or a sign, the digits m and the count e of
\* those digits that are behind the decimal point (m / 10^e).
NaN == [nan |-> TRUE, neg |-> FALSE, m |-> 0, e |-> 0]
RECURSIVE Number(_, _, _)
Number(neg, m, e) ==
  IF m = 0 THEN [nan |-> FALSE, neg |-> FALSE, m |-> 0, e |-> 0]
  ELSE IF e > 0 /\ m % 10 = 0 THEN Number(neg, m \div 10, e - 1)
  ELSE [nan |-> FALSE, neg |-> neg, m |-> m, e |-> e]

DigitOf(c) == (CHOOSE k \in 1..10 : DecimalDigits[k] = c) - 1
RECURSIVE DigitsValue(_)
DigitsValue(s) ==
  IF s = <<>> THEN 0 ELSE 10 * DigitsValue(SubSeq(s, 1, Len(s) - 1)) + DigitOf(s[Len(s)])

\* The unary plus: white space around the literal is dropped, the empty
\* string is 0, a signed decimal literal is its value, anything else is NaN.
ToNumber(s) ==
  LET t == Trim(s)
      signed == t # <<>> /\ Head(t) \in {"+", "-"}
      body == IF signed THEN Tail(t) ELSE t
      points == {i \in 1..Len(body) : body[i] = "."}
      digits == SelectSeq(body, LAMBDA c : c # ".")
  IN IF t = <<>> THEN Number(FALSE, 0, 0)
     ELSE IF /\ digits # <<>>
             /\ Chars(digits) \subseteq Chars(DecimalDigits)
             /\ Cardinality(points) <= 1
          THEN Number(signed /\ Head(t) = "-", DigitsValue(digits),
                      IF points = {} THEN 0 ELSE Len(body) - First(points))
          ELSE NaN

\* parse without the test of the cleaned text.
parse_Unchecked(numberData, value) ==
  ToNumber(ReplaceNumerals(
             ReplaceFirst(RemoveAll(Trim(value), numberData.group), numberData.decimal, "."),
             numberData.numeral))

parse(numberData, value) ==
  LET cleaned ==
        ReplaceNumerals(
          ReplaceFirst(RemoveAll(Trim(value), numberData.group), numberData.decimal, "."),
          numberData.numeral)
  IN IF cleaned # <<>> THEN ToNumber(cleaned) ELSE NaN

\* The parser once the mount effect has run under the locale L; no call of
\* parse yet.
MountedParser(L) ==
  [locale |-> L, numberData |-> DeriveNumberData(L),
   text |-> <<>>, formatted |-> <<>>, result |-> NaN]

DefaultLocale == "en-US"

\* ---------------------------------------------------------------- actions
\* The state after the first render: nothing focused, pressed or scheduled.
InitState ==
  /\ isFocused = FALSE
  /\ async = NoTimer
  /\ timers = {}
  /\ nextId = 1
  /\ now = 0
  /\ mounted = TRUE
  /\ pressed = [d \in Dirs |-> FALSE]
  /\ stepCalls = [d \in Dirs |-> 0]
  /\ lastCallAt = [d \in Dirs |-> 0]
  /\ press = [d \in Dirs |-> [at |-> 0, base |-> 0, solo |-> FALSE]]
  /\ lastEvent = NoEvent
  /\ lastOps = <<>>

\* The host renders again, with the props q; the effects run after it.
Render(q) ==
  /\ mounted
  /\ q # props
  /\ props' = q
  /\ lastEvent' = Event("render", "")
  /\ lastOps' = AnnounceEffect(props, q, isFocused)
  /\ UNCHANGED <<parser, isFocused, async, timers, nextId, now, mounted, pressed,
                 stepCalls, lastCallAt, press>>

\* spinButtonProps.onKeyDown
KeyDown(e) ==
  /\ mounted
  /\ lastEvent' = e
  /\ lastOps' = onKeyDown(props, e)
  /\ UNCHANGED <<parser, props, isFocused, async, timers, nextId, now, mounted, pressed,
                 stepCalls, lastCallAt, press>>

\* spinButtonProps.onFocus
Focus ==
  /\ mounted
  /\ isFocused' = TRUE
  /\ lastEvent' = Event("focus", "")
  /\ lastOps' = <<Select>>
  /\ UNCHANGED <<parser, props, async, timers, nextId, now, mounted, pressed,
                 stepCalls, lastCallAt, press>>

\* spinButtonProps.onBlur
Blur ==
  /\ mounted
  /\ isFocused' = FALSE
  /\ lastEvent' = Event("blur", "")
  /\ lastOps' = onBlur(props)
  /\ UNCHANGED <<parser, props, async, timers, nextId, now, mounted, pressed,
                 stepCalls, lastCallAt, press>>

\* incrementButtonProps.onPressStart / decrementButtonProps.onPressStart:
\* the press-start closure of the latest render, with the initial delay.
PressStart(d) ==
  /\ mounted /\ ~pressed[d] /\ nextId <= MaxTimers
  /\ pressed' = [pressed EXCEPT ![d] = TRUE]
  /\ press' = [press EXCEPT
       ![d] = [at |-> now, base |-> stepCalls[d],
               solo |-> timers = {} /\ ~pressed[Other(d)]
                          /\ StepProp(props, d) # Undefined],
       ![Other(d)].solo = FALSE]
  /\ lastEvent' = Event("pressStart", d)
  /\ onPressStart(d, StepProp(props, d), InitialDelay(d), timers)
  /\ UNCHANGED <<parser, props, isFocused, now, mounted>>

\* incrementButtonProps.onPressEnd / decrementButtonProps.onPressEnd
PressEnd(d) ==
  /\ mounted /\ pressed[d]
  /\ pressed' = [pressed EXCEPT ![d] = FALSE]
  /\ lastEvent' = Event("pressEnd", d)
  /\ onPressEnd
  /\ UNCHANGED <<parser, props, isFocused, async, nextId, now, mounted, stepCalls,
                 lastCallAt, press>>

\* TimerFire with a timer callback that calls the step callback and arms
\* nothing.
TimerFire_NoRearm(t) ==
  /\ t \in Due /\ nextId <= MaxTimers
  /\ lastEvent' = Event("timer", t.dir)
  /\ lastOps' = <<Call(StepName(t.dir), t.fn)>>
  /\ timers' = timers \ {t}
  /\ stepCalls' = [stepCalls EXCEPT ![t.dir] = @ + 1]
  /\ lastCallAt' = [lastCallAt EXCEPT ![t.dir] = now]
  /\ UNCHANGED <<parser, props, isFocused, async, nextId, now, mounted, pressed, press>>

\* A timer comes due: it leaves the queue and its callback runs, which is
\* the press-start closure that armed it, with the repeat delay.  Nothing
\* ties a timer to the component being mounted.
TimerFire(t) ==
  /\ t \in Due /\ nextId <= MaxTimers
  /\ lastEvent' = Event("timer", t.dir)
  /\ onPressStart(t.dir, t.fn, RepeatDelay(t.dir), timers \ {t})
  /\ UNCHANGED <<parser, props, isFocused, now, mounted, pressed, press>>

\* Time passes, up to the next deadline: a timer fires when it is due.
Advance ==
  /\ now < MaxTime /\ Due = {}
  /\ now' = Min2(Min2(now + TimeStep, MaxTime),
                 IF timers = {} THEN MaxTime ELSE MinAt(timers))
  /\ lastEvent' = Event("advance", "")
  /\ lastOps' = <<>>
  /\ UNCHANGED <<parser, props, isFocused, async, timers, nextId, mounted, pressed,
                 stepCalls, lastCallAt, press>>

\* The component unmounts.  The hook registers no cleanup: the handle and
\* the timers stay as they are.
Unmount ==
  /\ mounted
  /\ mounted' = FALSE
  /\ lastEvent' = Event("unmount", "")
  /\ lastOps' = <<>>
  /\ UNCHANGED <<parser, props, isFocused, async, timers, nextId, now, pressed,
                 stepCalls, lastCallAt, press>>

\* The host's locale becomes L and the hook renders again; the effect that
\* fills numberData has no dependencies and does not run again.
SetLocale(L) ==
  /\ mounted
  /\ L # parser.locale
  /\ parser' = [parser EXCEPT !.locale = L]
  /\ lastEvent' = Event("locale", "")
  /\ lastOps' = <<>>
  /\ UNCHANGED <<props, isFocused, async, timers, nextId, now, mounted, pressed,
                 stepCalls, lastCallAt, press>>

\* A caller passes the text to parse.
ParseText(text) ==
  /\ mounted
  /\ parser' = [parser EXCEPT !.text = text, !.formatted = <<>>,
                              !.result = parse(parser.numberData, text)]
  /\ lastEvent' = Event("parse", "")
  /\ lastOps' = <<>>
  /\ UNCHANGED <<props, isFocused, async, timers, nextId, now, mounted, pressed,
                 stepCalls, lastCallAt, press>>

\* A caller formats the number v under the active locale, with grouping, and
\* passes the text to parse.
ParseFormatted(v) ==
  /\ mounted
  /\ parser' = [parser EXCEPT !.text = Format(parser.locale, v, TRUE), !.formatted = <<v>>,
                              !.result = parse(parser.numberData, Format(parser.locale, v, TRUE))]
  /\ lastEvent' = Event("parse", "")
  /\ lastOps' = <<>>
  /\ UNCHANGED <<props, isFocused, async, timers, nextId, now, mounted, pressed,
                 stepCalls, lastCallAt, press>>

\* ---------------------------------------------- the press-and-hold machine
\* The props of the runs of the press-and-hold machine: every choice of the
\* two step callbacks, the rest supplied.
PressProps ==
  {[FullProps EXCEPT !.onIncrement = a, !.onDecrement = b] : a, b \in Callback}
\* The keys that reach the step callbacks, unmodified.
StepKeyEvents == {KeyEvent(k, <<FALSE, FALSE, FALSE, FALSE>>) : k \in {"ArrowUp", "ArrowDown"}}

Init == InitState /\ props \in PressProps /\ parser = MountedParser(DefaultLocale)

Next ==
  \/ \E d \in Dirs : PressStart(d)
  \/ \E d \in Dirs : PressEnd(d)
  \/ \E t \in timers : TimerFire(t)
  \/ Advance
  \/ Unmount
  \/ \E q \in PressProps : Render(q)
  \/ \E e \in StepKeyEvents : KeyDown(e)

Spec == Init /\ [][Next]_vars

\* ------------------------------------------------- keyboard and focus
InitKeys == InitState /\ props \in AllProps /\ parser = MountedParser(DefaultLocale)

NextKeys ==
  \/ \E e \in KeyEvents : KeyDown(e)
  \/ Focus
  \/ Blur
  \/ \E f \in Fields : \E q \in Variants(props, f) : Render(q)

SpecKeys == InitKeys /\ [][NextKeys]_vars

\* ------------------------------------------------- focus and announcement
\* The props of the runs about focus and announcement: every value and text.
FocusProps ==
  {[FullProps EXCEPT !.value = v, !.textValue = t, !.onValidate = c, !.isReadOnly = r] :
     v \in {NoNumber, Num(5), Num(6)}, t \in {Undefined, "", "5", "five"},
     c \in Callback, r \in BOOLEAN}

InitFocus == InitState /\ props \in FocusProps /\ parser = MountedParser(DefaultLocale)

NextFocus ==
  \/ Focus
  \/ Blur
  \/ \E q \in FocusProps : Render(q)

SpecFocus == InitFocus /\ [][NextFocus]_vars

\* ------------------------------------------------- callbacks that change
\* The host passes one of two different functions for each step callback,
\* and may pass the other one on any render.
StepCallbacks == {"f1", "f2"}
StaleProps ==
  {[FullProps EXCEPT !.onIncrement = a, !.onDecrement = b] : a, b \in StepCallbacks}

InitStale == InitState /\ props \in StaleProps /\ parser = MountedParser(DefaultLocale)

NextStale ==
  \/ \E d \in Dirs : PressStart(d)
  \/ \E d \in Dirs : PressEnd(d)
  \/ \E t \in timers : TimerFire(t)
  \/ Advance
  \/ \E q \in StaleProps : Render(q)

SpecStale == InitStale /\ [][NextStale]_vars

\* ------------------------------------------------------ the repeat, fairly
\* The buttons are pressed and released with both step callbacks supplied;
\* time passes, and a timer that is due fires.
InitLive == InitState /\ props = FullProps /\ parser = MountedParser(DefaultLocale)

NextLive ==
  \/ \E d \in Dirs : PressStart(d)
  \/ \E d \in Dirs : PressEnd(d)
  \/ \E t \in timers : TimerFire(t)
  \/ Advance

SpecLive ==
  /\ InitLive
  /\ [][NextLive]_vars
  /\ WF_vars(Advance)
  /\ WF_vars(\E t \in timers : TimerFire(t))

\* ------------------------------------------------------------ number parser
\* The numbers that are formatted: 0 and 1, 12, 123, ... up to MaxIntDigits
\* integer digits, with no fraction or the fraction .5, of either sign.
IntegerDigits == {<<0>>} \cup {[i \in 1..n |-> i] : n \in 1..MaxIntDigits}
Decimals ==
  {Decimal(neg, int, frac) :
     neg \in BOOLEAN, int \in IntegerDigits, frac \in {<<>>, <<5>>}}
  \ {Decimal(TRUE, <<0>>, <<>>)}

\* The texts that are parsed as they are: every text of up to MaxTextLen of
\* these characters.
TextChars == {" ", NBSP, ",", ".", "1"}
Texts == UNION {[1..n -> TextChars] : n \in 0..MaxTextLen}

InitParser == InitState /\ props = FullProps /\ parser \in {MountedParser(L) : L \in Locales}

\* Numbers are formatted and parsed back while the locale changes.
NextParser ==
  \/ \E L \in Locales : SetLocale(L)
  \/ \E v \in Decimals : ParseFormatted(v)

SpecParser == InitParser /\ [][NextParser]_vars

\* Texts are parsed as they are, under the locale of the mount.
NextParseText == \E text \in Texts : ParseText(text)

SpecParseText == InitParser /\ [][NextParseText]_vars

\* =================================================================== claims
\* Step invocations of direction d since its last press-start.
CallsInPress(d) == stepCalls[d] - press[d].base
\* How long direction d has been held since its last press-start.
HeldFor(d) == now - press[d].at
\* A timer of direction d fires in this step.
Fires(d) == \E t \in TimersOf(d) : TimerFire(t)

\* Both step callbacks are supplied.
StepsSupplied == \A d \in Dirs : StepProp(props, d) # Undefined

\* C1: after the press-end of a direction, its step callback is not invoked
\* by the repeat machine until the next press-start of that direction,
\* whatever else happens; and a press ended before the initial delay has
\* elapsed made one step call and no more.
C1_NoStepAfterPressEnd ==
  [][StepsSupplied => \A d \in Dirs :
       /\ (~pressed[d] /\ ~pressed'[d]) => stepCalls'[d] = stepCalls[d]
       /\ (PressEnd(d) /\ HeldFor(d) < InitialDelay(d)) => CallsInPress(d) <= 1]_vars

\* C2: the two directions run independent repeat sequences: no press-start,
\* timer fire or press-end of one direction changes the pending timers of the
\* other, and a direction's own press-end leaves none of its timers pending.
C2_IndependentSequences ==
  [][StepsSupplied => \A d \in Dirs :
       /\ (PressStart(d) \/ PressEnd(d) \/ Fires(d))
            => TimersOf(Other(d))' = TimersOf(Other(d))
       /\ PressEnd(d) => TimersOf(d)' = {}]_vars

\* C3: at most one timer per direction is live, and every live timer is the
\* one the handle _async.current refers to.
C3_OneLiveTimer ==
  /\ \A d \in Dirs : Cardinality(TimersOf(d)) <= 1
  /\ \A t \in timers : t.id = async

\* C4: once the component has unmounted no timer is live (so no step callback
\* is invoked again).
C4_UnmountCancels == ~mounted => timers = {}

\* C5: a press-start from Idle (no timer of that direction pending) with the
\* step callback supplied invokes it exactly once, first, and then arms
\* exactly one timer, due 400 later, for either button.
C5_PressStartCallsThenArms ==
  [][\A d \in Dirs :
       (PressStart(d) /\ StepProp(props, d) # Undefined /\ TimersOf(d) = {}) =>
         /\ stepCalls'[d] = stepCalls[d] + 1
         /\ lastOps' = <<Call(StepName(d), StepProp(props, d)), SetTimeout(d, 400)>>
         /\ Cardinality(timers' \ timers) = 1
         /\ TimersOf(d)' = timers' \ timers
         /\ \A t \in TimersOf(d)' : t.at = now + 400]_vars

\* C5 witness: the decrement button was pressed from Idle; its callback was
\* called and its one timer is pending.
C5_Witness ==
  /\ lastEvent = Event("pressStart", "dec")
  /\ Invoked(lastOps, "onDecrement")
  /\ Cardinality(TimersOf("dec")) = 1
  /\ TimersOf("inc") # {}

\* The number of step calls of an increment press held for h: the one of the
\* press-start, one when the initial delay has elapsed, and one more per
\* repeat interval elapsed after that.
ExpectedCalls(h) == IF h < 400 THEN 1 ELSE 2 + (h - 400) \div 60
\* A timer is due and has not fired yet.
DuePending == \E t \in timers : t.at <= now

\* C6 (as amended): an increment press that starts with no timer live, is
\* held for h with no decrement press started meanwhile, and then ends, has
\* made 1 call if h < 400 and 2 + floor((h - 400) / 60) calls otherwise (one
\* fewer if the press-end comes before a fire due at that very instant), and
\* leaves no timer behind; consecutive calls are at least 60 apart.
C6_HeldCallCount ==
  [][/\ (PressEnd("inc") /\ press["inc"].solo) =>
          /\ CallsInPress("inc")
               = ExpectedCalls(HeldFor("inc")) - (IF DuePending THEN 1 ELSE 0)
          /\ timers' = {}
     /\ (Fires("inc") /\ pressed["inc"] /\ press["inc"].solo) =>
          now - lastCallAt["inc"] >= 60]_vars

\* C6 witness: such a press ended after 520 or more, having made four calls.
C6_Witness ==
  /\ lastEvent = Event("pressEnd", "inc")
  /\ press["inc"].solo
  /\ HeldFor("inc") >= 520
  /\ CallsInPress("inc") = 4
  /\ timers = {}

\* C6 as first stated: such a press held for h >= 2 * 60 has made
\* 1 + floor(h / 60) calls when it ends.
C6_OriginalCallCount ==
  [][(PressEnd("inc") /\ press["inc"].solo /\ HeldFor("inc") >= 2 * 60
        /\ ~DuePending) =>
       CallsInPress("inc") = 1 + HeldFor("inc") \div 60]_vars

\* Key events the handler does not ignore: no modifier, not read-only.
Plain(p, e) == ~e.ctrlKey /\ ~e.metaKey /\ ~e.shiftKey /\ ~e.altKey /\ ~p.isReadOnly

\* C7: no handler throws, whichever callbacks the host left out.
C7_NeverThrows == ~Threw(lastOps)

\* C8: a key-down invokes at most one host callback and prevents the default
\* exactly when it invoked one.
C8_PreventIffInvoked ==
  lastEvent.type = "keydown" =>
    /\ Cardinality(CallsIn(lastOps)) <= 1
    /\ Prevented(lastOps) <=> CallsIn(lastOps) # {}

\* C9: a key-down with a modifier active, or while read-only, does nothing:
\* no callback, no preventDefault, for every key.
C9_ModifiedOrReadOnlyIgnored ==
  (lastEvent.type = "keydown" /\ ~Plain(props, lastEvent)) => lastOps = <<>>

\* C9 witness: ctrl+ArrowUp with onIncrement supplied and the control not
\* read-only: nothing was done.
C9_Witness ==
  /\ lastEvent.type = "keydown"
  /\ lastEvent.key = "ArrowUp" /\ lastEvent.ctrlKey /\ ~lastEvent.altKey
  /\ props.onIncrement # Undefined /\ ~props.isReadOnly
  /\ lastOps = <<>>

\* The callbacks PageUp / PageDown are to call: the page callback when it is
\* supplied, else the single step when that is supplied, else nothing.
PageCalls(page, pageName, step, stepName) ==
  IF page # Undefined THEN <<pageName>>
  ELSE IF step # Undefined THEN <<stepName>> ELSE <<>>

\* C10: PageUp calls only onIncrementPage when supplied, else onIncrement
\* once when supplied, else nothing; PageDown likewise; the arrow keys never
\* call a page callback.
C10_PageFallback ==
  (lastEvent.type = "keydown" /\ Plain(props, lastEvent)) =>
    /\ lastEvent.key = "PageUp" =>
         CalledNames(lastOps) = PageCalls(props.onIncrementPage, "onIncrementPage",
                                          props.onIncrement, "onIncrement")
    /\ lastEvent.key = "PageDown" =>
         CalledNames(lastOps) = PageCalls(props.onDecrementPage, "onDecrementPage",
                                          props.onDecrement, "onDecrement")
    /\ lastEvent.key \in {"ArrowUp", "Up", "ArrowDown", "Down"} =>
         /\ ~Invoked(lastOps, "onIncrementPage")
         /\ ~Invoked(lastOps, "onDecrementPage")

\* C10 witness: PageDown without onDecrementPage fell through to onDecrement.
C10_Witness ==
  /\ lastEvent.type = "keydown" /\ lastEvent.key = "PageDown"
  /\ Plain(props, lastEvent)
  /\ props.onDecrementPage = Undefined
  /\ CalledNames(lastOps) = <<"onDecrement">>


\* What Home / End are to do: with the bound defined and the jump callback
\* supplied, prevent the default and call it once; otherwise nothing.
JumpOps(bound, name, fn) ==
  IF bound # NoNumber /\ fn # Undefined THEN <<PreventDefault, Call(name, fn)>> ELSE <<>>

\* C11: Home calls onDecrementToMin exactly once if and only if minValue is
\* defined (0 included) and the callback is supplied, End likewise with
\* maxValue and onIncrementToMax; otherwise nothing is called and the default
\* is left in place.
C11_HomeEndJump ==
  (lastEvent.type = "keydown" /\ Plain(props, lastEvent)) =>
    /\ lastEvent.key = "Home" =>
         lastOps = JumpOps(props.minValue, "onDecrementToMin", props.onDecrementToMin)
    /\ lastEvent.key = "End" =>
         lastOps = JumpOps(props.maxValue, "onIncrementToMax", props.onIncrementToMax)

\* C11 witness: Home with minValue = 0 called onDecrementToMin.
C11_Witness ==
  /\ lastEvent.type = "keydown" /\ lastEvent.key = "Home"
  /\ props.minValue = Num(0)
  /\ CalledNames(lastOps) = <<"onDecrementToMin">>
  /\ Prevented(lastOps)


\* C12: every blur leaves the control unfocused and calls the validation
\* callback exactly once, whatever the value did since the focus and whether
\* or not the control is read-only.
C12_BlurValidatesOnce ==
  (lastEvent.type = "blur" /\ props.onValidate # Undefined) =>
    /\ ~isFocused
    /\ lastOps = <<Call("onValidate", props.onValidate)>>

\* C12 witness: a read-only control was blurred and validated.
C12_Witness ==
  /\ lastEvent.type = "blur"
  /\ props.isReadOnly
  /\ ~isFocused
  /\ CalledNames(lastOps) = <<"onValidate">>

\* The announcements a handler or effect made.
Announced(ops) == SelectSeq(ops, LAMBDA o : o.op = "announce")
\* This step is a render.
Renders == \E q \in FocusProps : Render(q)

\* C13: each render that changes the displayed value (textValue || value as
\* a string) while the control is focused makes exactly one announcement,
\* of the new displayed value.
C13_AnnouncesDisplayedChange ==
  [][(Renders /\ isFocused /\ Displayed(props') # Displayed(props)) =>
       Announced(lastOps') = <<Announce(Displayed(props'))>>]_vars

\* C13 witness: focused, the value went from 5 to 6 and "6" was announced.
C13_Witness ==
  /\ lastEvent.type = "render"
  /\ isFocused
  /\ props.value = Num(6) /\ props.textValue = Undefined
  /\ lastOps = <<Announce("6")>>

\* C14 as first stated: an announcement is made only in a step in which the
\* control is focused and the displayed value differs from the one before.
C14_OnlyOnDisplayedChange ==
  [][Announced(lastOps') # <<>> =>
       (isFocused /\ Displayed(props') # Displayed(props))]_vars

\* C14 (as amended): an announcement is made only by a render in which the
\* control is focused and textValue or value differs from the render before;
\* none on mount, on focus or blur, while unfocused, or by a render that
\* leaves both props as they were.
C14_OnlyOnFocusedPropChange ==
  /\ Announced(lastOps) # <<>> => lastEvent.type = "render"
  /\ [][Announced(lastOps') # <<>> =>
          /\ Renders
          /\ isFocused
          /\ props'.textValue # props.textValue \/ props'.value # props.value]_vars

\* C14 witness: focused, a render changed neither textValue nor value and
\* nothing was announced.
C14_Witness ==
  /\ lastEvent.type = "render"
  /\ isFocused
  /\ props.isReadOnly
  /\ lastOps = <<>>


\* A call of parse has just returned.
Parsed == lastEvent.type = "parse"
\* The call parsed the text of a number formatted under the active locale.
ParsedFormatted == Parsed /\ parser.formatted # <<>>
\* The number that was formatted, as a JavaScript number.
FormattedNumber ==
  LET v == parser.formatted[1]
  IN Number(v.neg, DigitsValue(Numerals("en-US", v.int \o v.frac)), Len(v.frac))
\* The descriptor in use is the one of the active locale.
DescriptorCurrent == parser.numberData = DeriveNumberData(parser.locale)

\* C15: the descriptor parse uses (group separator, decimal separator,
\* numerals) is always the one derived for the active locale, also after the
\* locale has changed.  The effect that derives it runs once, so a parse
\* after a change of locale uses the descriptor of the locale at mount.
C15_DescriptorTracksLocale == Parsed => DescriptorCurrent

\* C16: parsing the text a number was formatted to, with grouping, under the
\* active locale gives the number back.  Stated with the descriptor of the
\* active locale in use, so that what fails is the round trip itself: the
\* minus sign of a locale is not cleaned, and where it is not the ASCII
\* hyphen the text of a negative number parses to NaN.
C16_RoundTrip ==
  (ParsedFormatted /\ DescriptorCurrent) => parser.result = FormattedNumber

\* The text of the last call, trimmed and without the group separators of
\* the descriptor in use.
Stripped == RemoveAll(Trim(parser.text), parser.numberData.group)

\* C17: for a text that is empty, only white space, or empty once trimmed and
\* stripped of group separators, parse returns NaN and never 0.
C17_EmptyIsNaN == (Parsed /\ Stripped = <<>>) => parser.result = NaN
\* parse returned NaN for a text of group separators and white space.
C17_Witness ==
  /\ Parsed
  /\ Stripped = <<>>
  /\ \E i \in 1..Len(parser.text) : parser.text[i] \in parser.numberData.group
  /\ \E i \in 1..Len(parser.text) : parser.text[i] \in WhiteSpace \ parser.numberData.group
  /\ parser.result = NaN


\* C18: each timer fire invokes the step callback of its own direction once,
\* then arms one timer of that direction, due 60 later for increment and 75
\* later for decrement; the timer that fired is spent, and nothing else is
\* called, armed or cleared.
C18_FireStepsThenRearms ==
  [][\A t \in timers :
       TimerFire(t) =>
         /\ stepCalls' = [stepCalls EXCEPT ![t.dir] = @ + 1]
         /\ Len(lastOps') = 2
         /\ IsCall(lastOps'[1]) /\ lastOps'[1].name = StepName(t.dir)
         /\ lastOps'[2] = SetTimeout(t.dir, IF t.dir = "inc" THEN 60 ELSE 75)
         /\ t \notin timers'
         /\ timers \ timers' = {t}
         /\ Cardinality(timers' \ timers) = 1
         /\ \A u \in timers' \ timers :
              u.dir = t.dir /\ u.at = now + (IF t.dir = "inc" THEN 60 ELSE 75)]_vars

\* C18 witness: a decrement timer fired; onDecrement was called and the next
\* decrement timer is due 75 later.
C18_Witness ==
  /\ lastEvent = Event("timer", "dec")
  /\ Invoked(lastOps, "onDecrement")
  /\ \E u \in TimersOf("dec") : u.at = now + 75
  /\ now >= 400


\* C19: a timer fire calls the step callback the host supplied most recently
\* for the timer's direction, also when the props changed while the press
\* was held.  The timer's callback is the press-start closure of the render
\* in which the button was pressed, which keeps calling that render's
\* callback.
C19_FireCallsLatestCallback ==
  [][\A t \in timers :
       TimerFire(t) => lastOps'[1] = Call(StepName(t.dir), StepProp(props, t.dir))]_vars


\* Direction d is held, alone since its press-start, which found no timer.
HeldAlone(d) == pressed[d] /\ press[d].solo
\* The run has room for the next fire of direction d: its timer is due
\* before time stops, and setTimeout has a timer left to hand out.
Room(d) == nextId <= MaxTimers /\ \A t \in TimersOf(d) : t.at <= MaxTime

\* C20: while one direction is held alone, a timer of that direction is
\* pending after every handler, and, timers that are due firing, each count
\* of step calls of the press is exceeded later unless the press has ended.
C20_RepeatNeverStalls ==
  /\ [](\A d \in Dirs : HeldAlone(d) => TimersOf(d) # {})
  /\ \A d \in Dirs : \A k \in 1..MaxTimers :
       (HeldAlone(d) /\ CallsInPress(d) = k /\ Room(d))
         ~> (CallsInPress(d) > k \/ ~HeldAlone(d))

\* C20 witness: the decrement button is held alone and its second timer has
\* fired and re-armed.
C20_Witness ==
  /\ HeldAlone("dec")
  /\ lastEvent = Event("timer", "dec")
  /\ CallsInPress("dec") = 3
  /\ TimersOf("dec") # {}

====
